---- MODULE Spec2Model ----
(***************************************************************************)
(* Model of the reconciliation loop of cloudflare-dynamic-ip-updater       *)
(* (src/main.rs), with the wire types of src/cloudflare_api.rs.            *)
(*                                                                         *)
(* Strings are sequences of characters.  An Option<T> is a sequence of     *)
(* length 0 (None) or 1 (Some(v)).  A remote call's response is a pair     *)
(* (send_ok, parsed): send_ok is FALSE for a transport error (Err from     *)
(* send()), parsed is None for a body that cannot be read/deserialized.    *)
(***************************************************************************)
EXTENDS Integers, Sequences, FiniteSets, TLC

(* ---------- bounds ---------- *)
MaxLen == 2

(* ---------- strings ---------- *)
Chars == {"4", "\n"}

Strings == UNION {[1..n -> Chars] : n \in 0..MaxLen}

is_whitespace(c) == c \in {" ", "\n", "\t", "\r"}

RECURSIVE trim_start(_)
trim_start(s) ==
    IF s # <<>> /\ is_whitespace(Head(s)) THEN trim_start(Tail(s)) ELSE s

RECURSIVE trim_end(_)
trim_end(s) ==
    IF s # <<>> /\ is_whitespace(s[Len(s)])
    THEN trim_end(SubSeq(s, 1, Len(s) - 1))
    ELSE s

trim(s) == trim_end(trim_start(s))

(* ---------- Option ---------- *)
None == <<>>

Some(v) == <<v>>

is_none(o) == o = <<>>

unwrap(o) == o[1]

(* ---------- wire types (cloudflare_api.rs) ---------- *)
\* The records the provider may hold, apart from their content.
RecordShapes ==
    { [id |-> "rec1", dns_type |-> "A",    name |-> "home", ttl |-> 1,
       proxied |-> FALSE, modified_on |-> "t1"],
      [id |-> "rec1", dns_type |-> "A",    name |-> "www",  ttl |-> 300,
       proxied |-> TRUE,  modified_on |-> "t2"],
      [id |-> "rec2", dns_type |-> "AAAA", name |-> "home", ttl |-> 300,
       proxied |-> FALSE, modified_on |-> "t1"] }

WithContent(r, c) ==
    [id |-> r.id, dns_type |-> r.dns_type, name |-> r.name, content |-> c,
     ttl |-> r.ttl, proxied |-> r.proxied, modified_on |-> r.modified_on]

CloudflareDnsResult ==
    {WithContent(r, c) : r \in RecordShapes, c \in Strings}

CloudflareResponse ==
    [result : CloudflareDnsResult, success : BOOLEAN]

CloudflareDnsRecord(dns_type, name, content, ttl, proxied) ==
    [dns_type |-> dns_type, name |-> name, content |-> content,
     ttl |-> ttl, proxied |-> proxied]

\* serde serialization of CloudflareDnsRecord: dns_type is renamed to "type".
to_json(rec) ==
    [k \in {"type", "name", "content", "ttl", "proxied"} |->
        CASE k = "type"    -> rec.dns_type
          [] k = "name"    -> rec.name
          [] k = "content" -> rec.content
          [] k = "ttl"     -> rec.ttl
          [] k = "proxied" -> rec.proxied]

(* ---------- configuration (config.rs) ---------- *)
\* constants.rs
DEFAULT_WAIT_TIME == 300

DEFAULT_NOT_SET == "not set"

GeneralConfig(wait_duration) == [wait_duration |-> wait_duration]

CloudflareConfig(zone_id, api_token, dns_record_id) ==
    [zone_id |-> zone_id, api_token |-> api_token,
     dns_record_id |-> dns_record_id]

Config(general, cloudflare) == [general |-> general, cloudflare |-> cloudflare]

GeneralConfig_default == GeneralConfig(Some(DEFAULT_WAIT_TIME))

CloudflareConfig_default ==
    CloudflareConfig(Some(DEFAULT_NOT_SET), Some(DEFAULT_NOT_SET),
                     Some(DEFAULT_NOT_SET))

Config_default ==
    Config(Some(GeneralConfig_default), Some(CloudflareConfig_default))

\* Merge for Option<T>: a None is overwritten, a Some is kept as it is.
Option_merge(self, other) == IF is_none(self) THEN other ELSE self

\* derive(Merge): the fields are merged one by one.
Config_merge(self, other) ==
    Config(Option_merge(self.general, other.general),
           Option_merge(self.cloudflare, other.cloudflare))

CloudflareConfig_merge(self, other) ==
    CloudflareConfig(Option_merge(self.zone_id, other.zone_id),
                     Option_merge(self.api_token, other.api_token),
                     Option_merge(self.dns_record_id, other.dns_record_id))

\* config.rs 131-139
merge_custom(self, other) ==
    LET merged == Config_merge(self, other)
        cloudflare == CloudflareConfig_merge(unwrap(merged.cloudflare),
                                             unwrap(other.cloudflare))
    IN  [merged EXCEPT !.cloudflare = Some(cloudflare)]

\* The values a configuration file may give.
FileWaitDurations == {60}

FileZoneIds == {DEFAULT_NOT_SET, "zone"}

FileApiTokens == {DEFAULT_NOT_SET, "token"}

FileDnsRecordIds == {DEFAULT_NOT_SET, "record"}

\* What toml::from_str makes of a file: each section and each field of a
\* section is there or not.
ParsedFiles ==
    [general : {None} \cup [{1} -> [wait_duration :
                                      {None} \cup [{1} -> FileWaitDurations]]],
     cloudflare : {None} \cup [{1} -> [zone_id : {None} \cup [{1} -> FileZoneIds],
                                       api_token :
                                           {None} \cup [{1} -> FileApiTokens],
                                       dns_record_id :
                                           {None}
                                           \cup [{1} -> FileDnsRecordIds]]]]

\* The configuration file: missing, not valid TOML, or parsed.
ConfigFiles ==
    {[exists |-> FALSE, parsed |-> None], [exists |-> TRUE, parsed |-> None]}
    \cup {[exists |-> TRUE, parsed |-> Some(c)] : c \in ParsedFiles}

Config_load_two_checks(file) ==
    IF ~file.exists THEN [outcome |-> "exited", config |-> None]
    ELSE IF is_none(file.parsed) THEN [outcome |-> "panicked", config |-> None]
    ELSE LET config == merge_custom(unwrap(file.parsed), Config_default)
             cloudflare_config == unwrap(config.cloudflare)
         IN  IF \E f \in {cloudflare_config.api_token,
                           cloudflare_config.zone_id} : is_none(f)
             THEN [outcome |-> "panicked", config |-> None]
             ELSE IF \/ unwrap(cloudflare_config.api_token) = DEFAULT_NOT_SET
                     \/ unwrap(cloudflare_config.zone_id) = DEFAULT_NOT_SET
                  THEN [outcome |-> "exited", config |-> None]
                  ELSE [outcome |-> "loaded", config |-> Some(config)]

\* config.rs 56-96.  A missing file is written with the defaults and the
\* process exits; a file that does not parse, or an unwrap of None, panics.
Config_load(file) ==
    IF ~file.exists THEN [outcome |-> "exited", config |-> None]
    ELSE IF is_none(file.parsed) THEN [outcome |-> "panicked", config |-> None]
    ELSE LET config == merge_custom(unwrap(file.parsed), Config_default)
             cloudflare_config == unwrap(config.cloudflare)
         IN  IF \E f \in {cloudflare_config.api_token,
                           cloudflare_config.zone_id,
                           cloudflare_config.dns_record_id} : is_none(f)
             THEN [outcome |-> "panicked", config |-> None]
             ELSE IF \/ unwrap(cloudflare_config.api_token) = DEFAULT_NOT_SET
                     \/ unwrap(cloudflare_config.zone_id) = DEFAULT_NOT_SET
                     \/ unwrap(cloudflare_config.dns_record_id)
                           = DEFAULT_NOT_SET
                  THEN [outcome |-> "exited", config |-> None]
                  ELSE [outcome |-> "loaded", config |-> Some(config)]

\* What main has bound when it did not get as far as the loop.
Unbound(at) ==
    [pc |-> at, wait_duration |-> 0, cloudflare_zone_id |-> "",
     cloudflare_api_token |-> "", cloudflare_dns_record_id |-> ""]

\* main.rs 25-42: the configuration is loaded and unwrapped.
main_startup(file) ==
    LET loaded == Config_load(file) IN
    IF loaded.outcome # "loaded" THEN Unbound(loaded.outcome)
    ELSE LET config == unwrap(loaded.config) IN
         IF is_none(config.general) THEN Unbound("panicked")
         ELSE IF is_none(unwrap(config.general).wait_duration)
              THEN Unbound("panicked")
         ELSE IF is_none(config.cloudflare) THEN Unbound("panicked")
         ELSE LET cloudflare_config == unwrap(config.cloudflare) IN
              IF \/ is_none(cloudflare_config.zone_id)
                 \/ is_none(cloudflare_config.api_token)
                 \/ is_none(cloudflare_config.dns_record_id)
              THEN Unbound("panicked")
              ELSE [pc |-> "sleep",
                    wait_duration |->
                        unwrap(unwrap(config.general).wait_duration),
                    cloudflare_zone_id |-> unwrap(cloudflare_config.zone_id),
                    cloudflare_api_token |->
                        unwrap(cloudflare_config.api_token),
                    cloudflare_dns_record_id |->
                        unwrap(cloudflare_config.dns_record_id)]

\* The wait durations the loop can run with.
WaitDurations == FileWaitDurations \cup {DEFAULT_WAIT_TIME}

(* ---------- state ---------- *)
VARIABLES
    config_file,                    \* the configuration file found at startup
    pc,                             \* position of main in its loop
    current_cloudflare_dns_record,  \* Option<CloudflareResponse>: the cache
    wait_duration,
    cloudflare_zone_id,
    cloudflare_api_token,
    cloudflare_dns_record_id,
    steps,      \* history: calls and comparison of the latest iteration
    slept,      \* history: the sleeps made since the last iteration ended
    last_response,  \* history: the response of the latest call that returned
    healthy,    \* environment: every remote call succeeds from now on
    stable_ip   \* environment: the body of every IP fetch while healthy

vars == <<config_file, pc, current_cloudflare_dns_record, wait_duration,
          cloudflare_zone_id, cloudflare_api_token, cloudflare_dns_record_id,
          steps, slept, last_response, healthy, stable_ip>>

config == <<config_file, wait_duration, cloudflare_zone_id,
            cloudflare_api_token, cloudflare_dns_record_id>>

env == <<healthy, stable_ip>>

(* ---------- remote calls ---------- *)
dns_record_url(zone_id, dns_record_id) ==
    <<"https://api.cloudflare.com/client/v4/zones/", zone_id,
      "/dns_records/", dns_record_id>>

checkip_url == <<"https://checkip.amazonaws.com">>

\* A call that has been sent and whose response is awaited.
Call(kind, method, url, auth, json) ==
    [step |-> kind, method |-> method, url |-> url, bearer_auth |-> auth,
     json |-> json, outcome |-> "pending", log |-> <<>>, writes |-> 0]

GetRecordCall ==
    Call("get_record", "GET",
         dns_record_url(cloudflare_zone_id, cloudflare_dns_record_id),
         Some(cloudflare_api_token), None)

GetIpCall == Call("get_ip", "GET", checkip_url, None, None)

UpdateCall(dns_record) ==
    Call("update", "POST",
         dns_record_url(cloudflare_zone_id, cloudflare_dns_record_id),
         Some(cloudflare_api_token), Some(to_json(dns_record)))

\* The comparison of main.rs 73, entered in the history, with the entry
\* main logs when the addresses differ (main.rs 79).
Compared(result) ==
    [step |-> "compare", method |-> "", url |-> <<>>, bearer_auth |-> None,
     json |-> None, outcome |-> result,
     log |-> IF result = "differ" THEN <<"info">> ELSE <<>>, writes |-> 0]

\* A response: send() is Ok or Err; the body parses (Some) or does not (None).
Ok(v) == [send_ok |-> TRUE, parsed |-> Some(v)]

Responses(Bodies) ==
    {r \in [send_ok : BOOLEAN, parsed : {None} \cup [{1} -> Bodies]] :
        ~r.send_ok => r.parsed = None}

CloudflareResponses == Responses(CloudflareResponse)

TextResponses == Responses(Strings)

ParsedCloudflareResponses == {r \in CloudflareResponses : r.parsed # None}

RecordResponses ==
    IF healthy THEN ParsedCloudflareResponses ELSE CloudflareResponses

IpResponses ==
    IF healthy THEN {Ok(stable_ip)} ELSE TextResponses

\* While healthy the provider acknowledges the update and returns its content.
UpdateResponses(json) ==
    IF healthy
    THEN {r \in ParsedCloudflareResponses :
             /\ unwrap(r.parsed).success
             /\ unwrap(r.parsed).result.content = json["content"]}
    ELSE CloudflareResponses

\* The values of last_response: none before the first call returns; then
\* the response of an IP fetch (a text body, one of S) or of a provider call
\* (an envelope, one of S).
NoResponse == [ip |-> None, cloudflare |-> None]

IpResponse(S) == [ip : [{1} -> S], cloudflare : {None}]

CloudflareCallResponse(S) == [ip : {None}, cloudflare : [{1} -> S]]

InFlight == {i \in 1..Len(steps) : steps[i].outcome = "pending"}

Last(s) == s[Len(s)]

Awaiting(kind) ==
    /\ steps # <<>>
    /\ Last(steps).step = kind
    /\ Last(steps).outcome = "pending"

\* The awaited call (the last step) has returned and its function has given
\* got: the history entry of the call gets the outcome, the entries the
\* function has logged at the logger's level (main.rs 16) or above, and the
\* number of times the call's result has been assigned to the cache slot.  The
\* history keeps a request's body only while the call is in flight.
Finish(got, writes) ==
    [steps EXCEPT ![Len(steps)] =
        [@ EXCEPT !.outcome = got.outcome, !.json = None, !.log = got.log,
                  !.writes = writes]]

FailureOutcomes == {"transport", "deser", "rejected"}

HasFailure(s) == \E i \in 1..Len(s) : s[i].outcome \in FailureOutcomes

(* ---------- the three remote-call functions ---------- *)
get_current_public_ip_or_default(r) ==
    IF r.send_ok
    THEN IF r.parsed # None
         THEN [ret |-> Some(unwrap(r.parsed)), outcome |-> "ok",
               log |-> <<>>]
         ELSE [ret |-> Some(<<>>), outcome |-> "deser",
               log |-> <<"error">>]
    ELSE [ret |-> Some(<<>>), outcome |-> "transport",
          log |-> <<"warn">>]

get_current_public_ip(r) ==
    IF r.send_ok
    THEN IF r.parsed # None
         THEN [ret |-> Some(unwrap(r.parsed)), outcome |-> "ok",
               log |-> <<>>]
         ELSE [ret |-> None, outcome |-> "deser",
               log |-> <<"error">>]
    ELSE [ret |-> None, outcome |-> "transport",
          log |-> <<"warn">>]

\* The derived Default of CloudflareResponse<CloudflareDnsResult>.
default_response ==
    [result |-> [id |-> "", dns_type |-> "", name |-> "", content |-> <<>>,
                 ttl |-> 0, proxied |-> FALSE, modified_on |-> ""],
     success |-> FALSE]

get_current_cloudflare_dns_record_or_default(r) ==
    IF r.send_ok
    THEN IF r.parsed # None
         THEN [ret |-> Some(unwrap(r.parsed)), outcome |-> "ok",
               log |-> <<>>]
         ELSE [ret |-> Some(default_response), outcome |-> "deser",
               log |-> <<"error">>]
    ELSE [ret |-> Some(default_response), outcome |-> "transport",
          log |-> <<"warn">>]

get_current_cloudflare_dns_record(r) ==
    IF r.send_ok
    THEN IF r.parsed # None
         THEN [ret |-> Some(unwrap(r.parsed)), outcome |-> "ok",
               log |-> <<>>]
         ELSE [ret |-> None, outcome |-> "deser",
               log |-> <<"error">>]
    ELSE [ret |-> None, outcome |-> "transport",
          log |-> <<"warn">>]

update_cloudflare_dns_record_unchecked(r) ==
    IF r.send_ok
    THEN IF r.parsed # None
         THEN [ret |-> Some(unwrap(r.parsed)), outcome |-> "ok",
               log |-> <<"info">>]
         ELSE [ret |-> None, outcome |-> "deser",
               log |-> <<"error">>]
    ELSE [ret |-> None, outcome |-> "transport",
          log |-> <<"error">>]

update_cloudflare_dns_record(r) ==
    IF r.send_ok
    THEN IF r.parsed # None
         THEN IF ~unwrap(r.parsed).success
              THEN [ret |-> None, outcome |-> "rejected",
                    log |-> <<"error">>]
              ELSE [ret |-> Some(unwrap(r.parsed)), outcome |-> "ok",
                    log |-> <<"info">>]
         ELSE [ret |-> None, outcome |-> "deser",
               log |-> <<"error">>]
    ELSE [ret |-> None, outcome |-> "transport",
          log |-> <<"error">>]

(* ---------- main ---------- *)
\* The state when main has loaded its configuration: at the top of the
\* loop, or the process has exited or panicked.
StartupInit ==
    /\ config_file \in ConfigFiles
    /\ LET started == main_startup(config_file) IN
       /\ pc = started.pc
       /\ wait_duration = started.wait_duration
       /\ cloudflare_zone_id = started.cloudflare_zone_id
       /\ cloudflare_api_token = started.cloudflare_api_token
       /\ cloudflare_dns_record_id = started.cloudflare_dns_record_id
    /\ current_cloudflare_dns_record = None
    /\ steps = <<>>
    /\ slept = <<>>
    /\ last_response = NoResponse
    /\ healthy = FALSE
    /\ stable_ip = <<>>

\* The state in which the loop starts.
Init ==
    /\ config_file \in ConfigFiles
    /\ main_startup(config_file).pc = "sleep"
    /\ pc = "sleep"
    /\ current_cloudflare_dns_record = None
    /\ wait_duration = main_startup(config_file).wait_duration
    /\ cloudflare_zone_id = main_startup(config_file).cloudflare_zone_id
    /\ cloudflare_api_token = main_startup(config_file).cloudflare_api_token
    /\ cloudflare_dns_record_id =
          main_startup(config_file).cloudflare_dns_record_id
    /\ steps = <<>>
    /\ slept = <<>>
    /\ last_response = NoResponse
    /\ healthy = FALSE
    /\ stable_ip = <<>>

EndIteration_break(st) ==
    /\ steps' = st
    /\ pc' = IF HasFailure(st) THEN "exit" ELSE "sleep"
    /\ slept' = <<>>

\* The end of the loop body (a continue, or falling off its end): back to
\* the top of the loop, with st the finished iteration's history.
EndIteration(st) ==
    /\ steps' = st
    /\ pc' = "sleep"
    /\ slept' = <<>>

\* The loop body goes on, awaiting the last call of st.
Await(st) ==
    /\ steps' = st
    /\ pc' = Last(st).step
    /\ UNCHANGED slept

Sleep_backoff ==
    /\ pc = "sleep"
    /\ slept' = Append(slept, IF HasFailure(steps) THEN 2 * wait_duration
                               ELSE wait_duration)
    /\ pc' = "iterate"
    /\ UNCHANGED <<current_cloudflare_dns_record, config, env, steps,
                   last_response>>

\* main.rs 42-46: the top of the loop.
Sleep ==
    /\ pc = "sleep"
    /\ slept' = Append(slept, wait_duration)
    /\ pc' = "iterate"
    /\ UNCHANGED <<current_cloudflare_dns_record, config, env, steps,
                   last_response>>

StartIteration_join ==
    /\ pc = "iterate"
    /\ IF is_none(current_cloudflare_dns_record)
       THEN /\ steps' = <<GetRecordCall, GetIpCall>>
            /\ pc' = "get_record"
            /\ UNCHANGED slept
       ELSE Await(<<GetIpCall>>)
    /\ UNCHANGED <<current_cloudflare_dns_record, config, env, last_response>>

StartIteration_refetch ==
    /\ pc = "iterate"
    /\ Await(<<GetRecordCall>>)
    /\ UNCHANGED <<current_cloudflare_dns_record, config, env, last_response>>

\* main.rs 48-60 up to the first await: a new iteration's first call.
StartIteration ==
    /\ pc = "iterate"
    /\ IF is_none(current_cloudflare_dns_record)
       THEN Await(<<GetRecordCall>>)
       ELSE Await(<<GetIpCall>>)
    /\ UNCHANGED <<current_cloudflare_dns_record, config, env, last_response>>

RecordFetched_ends_early ==
    /\ pc = "get_record"
    /\ Awaiting("get_record")
    /\ last_response' \in CloudflareCallResponse(RecordResponses)
    /\ LET r == unwrap(last_response'.cloudflare)
           got == get_current_cloudflare_dns_record(r)
           done == Finish(got, 1)
       IN /\ current_cloudflare_dns_record' = got.ret
          /\ IF is_none(got.ret) THEN EndIteration(done)
             ELSE Await(Append(done, GetIpCall))
    /\ UNCHANGED <<config, env>>

\* main.rs 50-60: the record fetch returns, the IP fetch is sent.
RecordFetched ==
    /\ pc = "get_record"
    /\ Awaiting("get_record")
    /\ last_response' \in CloudflareCallResponse(RecordResponses)
    /\ LET r == unwrap(last_response'.cloudflare)
           got == get_current_cloudflare_dns_record(r)
       IN /\ current_cloudflare_dns_record' = got.ret
          /\ Await(Append(Finish(got, 1), GetIpCall))
    /\ UNCHANGED <<config, env>>

new_dns_record_defaults(cached, current_public_ip_result) ==
    CloudflareDnsRecord(cached.result.dns_type,
                        cached.result.name,
                        current_public_ip_result,
                        0,
                        FALSE)

new_dns_record_stale_content(cached, current_public_ip_result) ==
    CloudflareDnsRecord(cached.result.dns_type,
                        cached.result.name,
                        cached.result.content,
                        cached.result.ttl,
                        cached.result.proxied)

\* main.rs 83-89
new_dns_record(cached, current_public_ip_result) ==
    CloudflareDnsRecord(cached.result.dns_type,
                        cached.result.name,
                        current_public_ip_result,
                        cached.result.ttl,
                        cached.result.proxied)

ips_match_untrimmed(current_public_ip_result, cached) ==
    current_public_ip_result = cached.result.content

\* main.rs 73
ips_match(current_public_ip_result, cached) ==
    trim(current_public_ip_result) = trim(cached.result.content)

IpFetched_invalidate ==
    /\ pc = "get_ip"
    /\ Awaiting("get_ip")
    /\ last_response' \in IpResponse(IpResponses)
    /\ LET r == unwrap(last_response'.ip)
           got == get_current_public_ip(r)
           current_public_ip == got.ret
           done == Finish(got, 0)
       IN IF is_none(current_public_ip)
             \/ is_none(current_cloudflare_dns_record)
          THEN /\ EndIteration(done)
               /\ current_cloudflare_dns_record' = None
          ELSE LET current_public_ip_result == unwrap(current_public_ip)
                   cached == unwrap(current_cloudflare_dns_record)
               IN
               /\ UNCHANGED current_cloudflare_dns_record
               /\ IF ips_match(current_public_ip_result, cached)
                  THEN EndIteration(Append(done, Compared("equal")))
                  ELSE Await(done \o
                             <<Compared("differ"),
                               UpdateCall(new_dns_record(
                                   cached, current_public_ip_result))>>)
    /\ UNCHANGED <<config, env>>

\* main.rs 59-96: the IP fetch returns; skip, or compare and send the update.
IpFetched ==
    /\ pc = "get_ip"
    /\ Awaiting("get_ip")
    /\ last_response' \in IpResponse(IpResponses)
    /\ LET r == unwrap(last_response'.ip)
           got == get_current_public_ip(r)
           current_public_ip == got.ret
           done == Finish(got, 0)
       IN IF is_none(current_public_ip)
             \/ is_none(current_cloudflare_dns_record)
          THEN EndIteration(done)
          ELSE LET current_public_ip_result == unwrap(current_public_ip)
                   cached == unwrap(current_cloudflare_dns_record)
               IN
               IF ips_match(current_public_ip_result, cached)
               THEN EndIteration(Append(done, Compared("equal")))
               ELSE Await(done \o
                          <<Compared("differ"),
                            UpdateCall(new_dns_record(
                                cached, current_public_ip_result))>>)
    /\ UNCHANGED <<current_cloudflare_dns_record, config, env>>

Updated_merge ==
    /\ pc = "update"
    /\ Awaiting("update")
    /\ last_response' \in
          CloudflareCallResponse(UpdateResponses(unwrap(Last(steps).json)))
    /\ LET r == unwrap(last_response'.cloudflare)
           got == update_cloudflare_dns_record(r)
       IN /\ current_cloudflare_dns_record' =
                IF is_none(got.ret) THEN None
                ELSE Some([unwrap(current_cloudflare_dns_record) EXCEPT
                              !.result.content = unwrap(got.ret).result.content])
          /\ EndIteration(Finish(got, 1))
    /\ UNCHANGED <<config, env>>

Updated_keep_old ==
    /\ pc = "update"
    /\ Awaiting("update")
    /\ last_response' \in
          CloudflareCallResponse(UpdateResponses(unwrap(Last(steps).json)))
    /\ LET r == unwrap(last_response'.cloudflare)
           got == update_cloudflare_dns_record(r)
       IN /\ current_cloudflare_dns_record' =
                IF is_none(got.ret) THEN None
                ELSE current_cloudflare_dns_record
          /\ EndIteration(Finish(got, 1))
    /\ UNCHANGED <<config, env>>

Updated_clear_first ==
    /\ pc = "update"
    /\ Awaiting("update")
    /\ last_response' \in
          CloudflareCallResponse(UpdateResponses(unwrap(Last(steps).json)))
    /\ LET r == unwrap(last_response'.cloudflare)
           got == update_cloudflare_dns_record(r)
       IN /\ current_cloudflare_dns_record' = got.ret
          /\ EndIteration(Finish(got, 2))
    /\ UNCHANGED <<config, env>>

\* main.rs 91-97: the update returns and its result becomes the cache.
Updated ==
    /\ pc = "update"
    /\ Awaiting("update")
    /\ last_response' \in
          CloudflareCallResponse(UpdateResponses(unwrap(Last(steps).json)))
    /\ LET r == unwrap(last_response'.cloudflare)
           got == update_cloudflare_dns_record(r)
       IN /\ current_cloudflare_dns_record' = got.ret
          /\ EndIteration(Finish(got, 1))
    /\ UNCHANGED <<config, env>>

\* Steps of the program.
Step ==
    \/ Sleep
    \/ StartIteration
    \/ RecordFetched
    \/ IpFetched
    \/ Updated

Next ==
    \/ Sleep
    \/ StartIteration
    \/ RecordFetched
    \/ IpFetched
    \/ Updated

Spec == Init /\ [][Next]_vars

\* The program from the moment main has loaded its configuration.
StartupSpec == StartupInit /\ [][Next]_vars

\* Connectivity and the provider recover, and the public IP settles on p.
Heal ==
    /\ ~healthy
    /\ healthy' = TRUE
    /\ stable_ip' \in Strings
    /\ UNCHANGED <<pc, current_cloudflare_dns_record, config, steps, slept,
                   last_response>>

NextHeal ==
    \/ Sleep
    \/ StartIteration
    \/ RecordFetched
    \/ IpFetched
    \/ Updated
    \/ Heal

\* The loop is one thread that is always scheduled: its sleep ends and every
\* call it awaits returns.
FairSpec == Init /\ [][Next]_vars /\ WF_vars(Step)

HealSpec == Init /\ [][NextHeal]_vars /\ WF_vars(Step)

TypeOK ==
    /\ pc \in {"sleep", "iterate", "get_record", "get_ip", "update",
              "exited", "panicked"}
    /\ current_cloudflare_dns_record \in {None} \cup {Some(v) : v \in CloudflareResponse}
    /\ pc \notin {"exited", "panicked"} => wait_duration \in WaitDurations
    /\ Cardinality(InFlight) <= 1

(* ---------- vocabulary of the properties ---------- *)
cache == current_cloudflare_dns_record

StepsOf(st, kind) == {i \in 1..Len(st) : st[i].step = kind}

\* In this step the awaited call of the given kind returns.
Returns(kind) ==
    /\ Awaiting(kind)
    /\ Len(steps') >= Len(steps)
    /\ steps'[Len(steps)].outcome # "pending"

\* What a response is, whatever the program makes of it.
TransportError(r) == ~r.send_ok

DeserializationError(r) == r.send_ok /\ r.parsed = None

WellFormed(r) == r.send_ok /\ r.parsed # None

\* The latest step is an update that has returned; its response.
UpdateReturned ==
    /\ steps # <<>>
    /\ Last(steps).step = "update"
    /\ Last(steps).outcome # "pending"
    /\ last_response.cloudflare # None

UpdateResponse == unwrap(last_response.cloudflare)

UpdateFailed ==
    /\ UpdateReturned
    /\ \/ TransportError(UpdateResponse)
       \/ DeserializationError(UpdateResponse)
       \/ WellFormed(UpdateResponse) /\ ~unwrap(UpdateResponse.parsed).success

UpdateAcknowledged ==
    /\ UpdateReturned
    /\ WellFormed(UpdateResponse)
    /\ unwrap(UpdateResponse.parsed).success

(* ---------- C1 ---------- *)
\* C1: when the IP fetch returns a body that equals the cached content after
\* trimming both, the step that receives it sends no update, ends the
\* iteration and leaves the cache as it was.
C1_NoUpdateWhenUnchanged ==
    [][ ( /\ Returns("get_ip")
          /\ cache # None
          /\ WellFormed(unwrap(last_response'.ip))
          /\ trim(unwrap(unwrap(last_response'.ip).parsed))
                = trim(unwrap(cache).result.content) )
        => /\ cache' = cache
           /\ pc' = "sleep"
           /\ StepsOf(steps', "update") = {}
           /\ InFlight' = {} ]_vars

\* The IP fetch returned "4\n" against a cached "4": equal, iteration over.
C1_Witness ==
    /\ pc = "sleep"
    /\ cache # None
    /\ unwrap(cache).result.content = <<"4">>
    /\ last_response.ip = Some(Ok(<<"4", "\n">>))
    /\ Last(steps) = Compared("equal")

(* ---------- C2 ---------- *)
PayloadKeys == {"type", "name", "content", "ttl", "proxied"}

\* C2: when the IP fetch returns a body that differs from the cached content
\* after trimming both (as strings), the step sends one update, a POST to the
\* record's URL whose body has exactly the keys type, name, content, ttl and
\* proxied: type, name, ttl and proxied are the cached record's and content is
\* the fetched body; and no iteration holds more than one update.
C2_UpdateOnDifference ==
    /\ [](Cardinality(StepsOf(steps, "update")) <= 1)
    /\ [][ ( /\ Returns("get_ip")
             /\ cache # None
             /\ WellFormed(unwrap(last_response'.ip))
             /\ trim(unwrap(unwrap(last_response'.ip).parsed))
                   # trim(unwrap(cache).result.content) )
           => /\ Cardinality(StepsOf(steps', "update")) = 1
              /\ Last(steps').step = "update"
              /\ Last(steps').outcome = "pending"
              /\ pc' = "update"
              /\ Last(steps').method = "POST"
              /\ Last(steps').url
                    = dns_record_url(cloudflare_zone_id, cloudflare_dns_record_id)
              /\ Last(steps').json # None
              /\ LET json == unwrap(Last(steps').json)
                     old == unwrap(cache).result
                 IN /\ DOMAIN json = PayloadKeys
                    /\ json["type"] = old.dns_type
                    /\ json["name"] = old.name
                    /\ json["ttl"] = old.ttl
                    /\ json["proxied"] = old.proxied
                    /\ json["content"] = unwrap(unwrap(last_response'.ip).parsed)
              /\ cache' = cache ]_vars

\* An update is in flight for "44" against a cached "4" with ttl 300, proxied.
C2_Witness ==
    /\ pc = "update"
    /\ Awaiting("update")
    /\ unwrap(cache).result.content = <<"4">>
    /\ unwrap(cache).result.ttl = 300
    /\ unwrap(cache).result.proxied
    /\ unwrap(Last(steps).json)["content"] = <<"4", "4">>

(* ---------- C3 ---------- *)
\* C3: after an update that ended in a transport error, a deserialization
\* error or an envelope with success = false the cache is empty, and the next
\* thing the loop does after its sleep is to send the record fetch.
C3_FailedUpdateInvalidatesCache ==
    /\ [](UpdateFailed => cache = None)
    /\ [][ UpdateFailed
           => \/ /\ pc = "sleep"
                 /\ pc' = "iterate"
                 /\ UpdateFailed'
              \/ /\ pc = "iterate"
                 /\ pc' = "get_record"
                 /\ steps' = <<GetRecordCall>> ]_vars

\* The provider answered an update with success = false; the loop has slept
\* again and is about to start the next iteration.
C3_Witness ==
    /\ pc = "iterate"
    /\ UpdateFailed
    /\ WellFormed(UpdateResponse)
    /\ cache = None

(* ---------- C4 ---------- *)
\* C4: after an update answered by a well-formed envelope with success = true
\* the cache is exactly that envelope.
C4_SuccessfulUpdateReplacesCache ==
    UpdateAcknowledged => cache = Some(unwrap(UpdateResponse.parsed))

\* The acknowledged record differs from the payload in content and in ttl.
C4_Witness ==
    /\ pc = "sleep"
    /\ UpdateAcknowledged
    /\ unwrap(cache).result.ttl = 300
    /\ unwrap(cache).result.content = <<"4", "\n">>

(* ---------- C5 ---------- *)
\* C5: when the IP fetch ends in a transport error or an unreadable body, the
\* step that receives it sends no update, ends the iteration and leaves the
\* cache as it was.
C5_IpFetchFailureTolerated ==
    [][ ( /\ Returns("get_ip")
          /\ ~WellFormed(unwrap(last_response'.ip)) )
        => /\ cache' = cache
           /\ pc' = "sleep"
           /\ StepsOf(steps', "update") = {}
           /\ InFlight' = {} ]_vars

\* The IP fetch failed in transport while a record was cached.
C5_Witness ==
    /\ pc = "sleep"
    /\ steps # <<>>
    /\ Last(steps).step = "get_ip"
    /\ last_response.ip # None
    /\ TransportError(unwrap(last_response.ip))
    /\ cache # None
    /\ trim(unwrap(cache).result.content) # <<>>

(* ---------- C6 ---------- *)
RecordFetchFailed ==
    /\ steps # <<>>
    /\ steps[1].step = "get_record"
    /\ steps[1].outcome \in {"transport", "deser"}

\* C6: an iteration entered with an empty cache starts with the record fetch;
\* a record fetch that ends in a transport or deserialization error leaves
\* the cache empty, and as long as that iteration is the latest no update is
\* sent and the cache stays empty.
C6_ColdStart ==
    /\ [][ (pc = "iterate" /\ cache = None)
           => (steps' = <<GetRecordCall>> /\ pc' = "get_record") ]_vars
    /\ [][ ( /\ Returns("get_record")
             /\ ~WellFormed(unwrap(last_response'.cloudflare)) )
           => /\ cache' = None
              /\ steps'[1].outcome \in {"transport", "deser"}
              /\ StepsOf(steps', "update") = {} ]_vars
    /\ [](RecordFetchFailed
            => /\ cache = None
               /\ StepsOf(steps, "update") = {}
               /\ StepsOf(steps, "compare") = {})

\* A cold-start iteration whose record fetch failed has ended, after its IP
\* fetch succeeded.
C6_Witness ==
    /\ pc = "sleep"
    /\ RecordFetchFailed
    /\ Len(steps) = 2
    /\ steps[2].outcome = "ok"
    /\ cache = None

(* ---------- C7 ---------- *)
\* C7: whatever the remote calls answer, the loop can always take a step
\* (no state is terminal or stuck) and again and again it is past its sleep,
\* starting an iteration.
C7_NoFailureIsFatal ==
    /\ [](ENABLED <<Step>>_vars)
    /\ []<>(pc = "iterate")

\* The record fetch and then the update of the last iteration failed, and the
\* loop has slept and starts another iteration.
C7_Witness ==
    /\ pc = "iterate"
    /\ UpdateFailed
    /\ TransportError(UpdateResponse)

(* ---------- C8 ---------- *)
Converged ==
    /\ cache # None
    /\ trim(unwrap(cache).result.content) = trim(stable_ip)

\* C8: in every behaviour in which, from some point on (healthy, which never
\* ends), every call succeeds and the public IP stays at stable_ip, there is
\* a point from which on the cache holds a record whose trimmed content is the
\* trimmed stable_ip and no update is in flight.  Before that point the calls
\* may have failed any number of times.
C8_SelfHealing ==
    <>[](healthy => (Converged /\ pc # "update"))

\* The provider acknowledged an update to the stable IP, which carries
\* whitespace.
C8_Witness ==
    /\ healthy
    /\ pc = "sleep"
    /\ UpdateAcknowledged
    /\ Converged
    /\ stable_ip = <<"4", "\n">>

(* ---------- C9 ---------- *)
Rank(kind) ==
    CASE kind = "get_record" -> 1
      [] kind = "get_ip"     -> 2
      [] kind = "compare"    -> 3
      [] kind = "update"     -> 4

\* C9: the steps of an iteration are in the order record fetch, IP fetch,
\* comparison, update, each at most once; a comparison follows an IP fetch and
\* an update follows a comparison; at most one call is in flight and it is the
\* latest step; and between iterations no call is in flight.
C9_StrictOrdering ==
    /\ \A i, j \in 1..Len(steps) :
          i < j => Rank(steps[i].step) < Rank(steps[j].step)
    /\ StepsOf(steps, "compare") # {} => StepsOf(steps, "get_ip") # {}
    /\ StepsOf(steps, "update") # {} => StepsOf(steps, "compare") # {}
    /\ Cardinality(InFlight) <= 1
    /\ InFlight \subseteq {Len(steps)}
    /\ pc \in {"sleep", "iterate"} => InFlight = {}
    /\ pc \notin {"sleep", "iterate"} => Awaiting(pc)

\* A whole iteration: record fetch, IP fetch, comparison, update in flight.
C9_Witness ==
    /\ Len(steps) = 4
    /\ steps[1].step = "get_record"
    /\ steps[4].step = "update"
    /\ InFlight = {4}

(* ---------- C10 ---------- *)
\* C10: whenever the loop is past its sleep, it has slept exactly once since
\* the last iteration ended, for wait_duration; at the top of the loop it has
\* not slept yet; and wait_duration, the zone id, the token and the record id
\* never change.
C10_ConstantCadence ==
    /\ [](pc # "sleep" => slept = <<wait_duration>>)
    /\ [](pc = "sleep" => slept = <<>>)
    /\ [][config' = config]_vars

\* After an iteration whose update failed the loop has slept once, for
\* wait_duration, and is about to send the first call of the next iteration.
C10_Witness ==
    /\ pc = "iterate"
    /\ HasFailure(steps)
    /\ slept = <<wait_duration>>
    /\ wait_duration = 300

(* ---------- C12 ---------- *)
\* The statement as it was made: after a failed record fetch the iteration
\* holds no further remote call, and the next call is the next iteration's
\* record fetch.
C12_EndsEarly ==
    /\ [](RecordFetchFailed
            => StepsOf(steps, "get_ip") \cup StepsOf(steps, "update") = {})
    /\ [][ (pc = "iterate" /\ RecordFetchFailed)
           => steps' = <<GetRecordCall>> ]_vars

\* C12: when the record fetch of an iteration entered with an empty cache
\* ends in a transport or deserialization error, the IP fetch is still sent;
\* the iteration then holds the failed record fetch and the IP fetch and
\* nothing else, it ends when the IP fetch returns, whatever it returns, and
\* the first call of the following iteration is the record fetch again.
C12_NoUpdateAfterFailedFetch ==
    /\ [][ ( /\ Returns("get_record")
             /\ ~WellFormed(unwrap(last_response'.cloudflare)) )
           => /\ pc' = "get_ip"
              /\ Last(steps') = GetIpCall ]_vars
    /\ [](RecordFetchFailed
            => /\ Len(steps) = 2
               /\ steps[2].step = "get_ip")
    /\ [][ (RecordFetchFailed /\ Returns("get_ip"))
           => (pc' = "sleep" /\ InFlight' = {}) ]_vars
    /\ [][ (pc = "iterate" /\ RecordFetchFailed)
           => steps' = <<GetRecordCall>> ]_vars

\* The record fetch failed and the IP fetch of the same iteration is awaited.
C12_Witness ==
    /\ pc = "get_ip"
    /\ RecordFetchFailed
    /\ Last(steps) = GetIpCall

(* ---------- C13 ---------- *)
RECURSIVE CacheWrites(_)
\* The assignments to the cache slot made in the iteration with history st.
CacheWrites(st) ==
    IF st = <<>> THEN 0
    ELSE Last(st).writes + CacheWrites(SubSeq(st, 1, Len(st) - 1))

\* The statement as it was made: no iteration assigns the cache slot twice.
C13_AtMostOncePerIteration == CacheWrites(steps) <= 1

\* C13: the cache slot is assigned once by each record fetch and each update
\* that returns and by nothing else, and changes only by such an assignment;
\* an iteration assigns it at most twice, and twice only when it fetched the
\* record, into an empty cache, and then sent an update.
C13_AtMostOncePerCall ==
    /\ [](\A i \in 1..Len(steps) :
            steps[i].writes =
                IF /\ steps[i].step \in {"get_record", "update"}
                   /\ steps[i].outcome # "pending"
                THEN 1 ELSE 0)
    /\ [](CacheWrites(steps) <= 2)
    /\ [](CacheWrites(steps) = 2
            => /\ steps[1].step = "get_record"
               /\ Last(steps).step = "update")
    /\ [][cache' # cache => CacheWrites(steps') = CacheWrites(steps) + 1]_vars

\* An iteration has ended that assigned the cache slot twice: the record
\* fetch filled it and the update's result replaced it.
C13_Witness ==
    /\ pc = "sleep"
    /\ CacheWrites(steps) = 2
    /\ cache # None
    /\ Last(steps).outcome = "ok"

(* ---------- C14 ---------- *)
\* C14: the cache is empty until the first iteration has started; an empty
\* cache is filled only by a record fetch that returns a well-formed
\* envelope; a filled cache is emptied only by an update that fails and stays
\* filled by an update the provider acknowledges; a record fetch that fails
\* leaves it empty; and every other step (the sleep, the start of an
\* iteration, the return of the IP fetch with or without a body, the
\* comparison) leaves the cache as it is.
C14_CacheStateMachine ==
    /\ [](steps = <<>> => cache = None)
    /\ [][ (cache = None /\ cache' # None)
           => /\ Returns("get_record")
              /\ WellFormed(unwrap(last_response'.cloudflare)) ]_vars
    /\ [][ (cache # None /\ cache' = None)
           => (Returns("update") /\ UpdateFailed') ]_vars
    /\ [][ (cache # None /\ Returns("update") /\ UpdateAcknowledged')
           => cache' # None ]_vars
    /\ [][ ( /\ Returns("get_record")
             /\ ~WellFormed(unwrap(last_response'.cloudflare)) )
           => (cache = None /\ cache' = None) ]_vars
    /\ [][ (~Returns("get_record") /\ ~Returns("update"))
           => cache' = cache ]_vars

\* The cache was filled when the iteration started (it sent no record fetch)
\* and the iteration's update, which the provider rejected, has emptied it.
C14_Witness ==
    /\ pc = "sleep"
    /\ steps # <<>>
    /\ steps[1].step = "get_ip"
    /\ UpdateFailed
    /\ WellFormed(UpdateResponse)
    /\ cache = None

(* ---------- C15 ---------- *)
\* C15: an iteration sends a record fetch exactly when the cache is empty as
\* the iteration starts, and then as its first call; with a filled cache no
\* record fetch is sent, and a filled cache changes only when an update
\* returns.
C15_FetchOnlyWhenEmpty ==
    /\ [][ pc = "iterate"
           => /\ (cache = None) <=> (StepsOf(steps', "get_record") # {})
              /\ Len(steps') = 1 ]_vars
    /\ [](StepsOf(steps, "get_record") \subseteq {1})
    /\ [][ cache # None => ~Returns("get_record") ]_vars
    /\ [][ (cache # None /\ cache' # cache) => Returns("update") ]_vars

\* An iteration entered with a filled cache has started with the IP fetch,
\* after an earlier iteration whose IP fetch returned a body equal to the
\* cached content.
C15_Witness ==
    /\ pc = "get_ip"
    /\ steps = <<GetIpCall>>
    /\ cache # None
    /\ last_response.ip # None
    /\ WellFormed(unwrap(last_response.ip))

(* ---------- C16 ---------- *)
\* C16: when the IP fetch returns a body that differs from the cached content
\* after trimming both, the update that is sent has the trimmed body as its
\* content, whatever whitespace surrounds the address in the body.
C16_TrimmedContent ==
    [][ ( /\ Returns("get_ip")
          /\ cache # None
          /\ WellFormed(unwrap(last_response'.ip))
          /\ trim(unwrap(unwrap(last_response'.ip).parsed))
                # trim(unwrap(cache).result.content) )
        => /\ Last(steps').step = "update"
           /\ unwrap(Last(steps').json)["content"]
                = trim(unwrap(unwrap(last_response'.ip).parsed)) ]_vars

(* ---------- C17 ---------- *)
\* The response with which the awaited call of the given kind returns.
Returned(kind) ==
    IF kind = "get_ip" THEN unwrap(last_response'.ip)
    ELSE unwrap(last_response'.cloudflare)

\* C17: when one of the three remote calls returns, a transport error has
\* left one log entry, a warning; a response that does not deserialize has
\* left one log entry, an error; and so has an envelope of the provider with
\* success == false.
C17_LogSeverity ==
    [][ \A kind \in {"get_record", "get_ip", "update"} :
          Returns(kind)
          => LET r == Returned(kind)
                 entries == steps'[Len(steps)].log
             IN /\ TransportError(r) => entries = <<"warn">>
                /\ DeserializationError(r) => entries = <<"error">>
                /\ ( /\ kind # "get_ip"
                     /\ WellFormed(r)
                     /\ ~unwrap(r.parsed).success )
                   => entries = <<"error">> ]_vars

(* ---------- C19 ---------- *)
\* C19: a filled cache holds an envelope with success == true, whether the
\* record fetch or an update filled it.
C19_CacheHoldsSuccess == cache # None => unwrap(cache).success

(* ---------- C20 ---------- *)
\* C20: when the provider acknowledges an update with a record whose content
\* is the content submitted, that content becomes the cached content; a filled
\* cache stays as it is until an update returns; while it does, every IP
\* fetch that returns the cached address, whatever whitespace surrounds it,
\* ends the iteration with no update sent; and an update is sent only when
\* the IP fetch has returned an address other than the cached one.
C20_NoRepeatedUpdate ==
    /\ [][ ( /\ Returns("update")
             /\ UpdateAcknowledged'
             /\ unwrap(UpdateResponse'.parsed).result.content
                   = unwrap(Last(steps).json)["content"] )
           => /\ cache' # None
              /\ unwrap(cache').result.content
                   = unwrap(Last(steps).json)["content"] ]_vars
    /\ [][ (cache # None /\ ~Returns("update")) => cache' = cache ]_vars
    /\ [][ ( /\ cache # None
             /\ Returns("get_ip")
             /\ WellFormed(unwrap(last_response'.ip))
             /\ trim(unwrap(unwrap(last_response'.ip).parsed))
                   = trim(unwrap(cache).result.content) )
           => /\ pc' = "sleep"
              /\ StepsOf(steps', "update") = {}
              /\ InFlight' = {} ]_vars
    /\ [][ (pc # "update" /\ pc' = "update")
           => /\ Returns("get_ip")
              /\ cache # None
              /\ trim(unwrap(unwrap(last_response'.ip).parsed))
                    # trim(unwrap(cache).result.content) ]_vars

\* The cache holds an acknowledged record with content "\n4"; an iteration
\* that found the cache filled fetched the same address as "4\n" and ended
\* after the comparison, with no update.
C20_Witness ==
    /\ pc = "sleep"
    /\ cache # None
    /\ unwrap(cache).success
    /\ unwrap(cache).result.content = <<"\n", "4">>
    /\ last_response.ip = Some(Ok(<<"4", "\n">>))
    /\ Len(steps) = 2
    /\ steps[1].step = "get_ip"
    /\ steps[2] = Compared("equal")

(* ---------- startup ---------- *)
\* A value of the file is unset: it is not there or it is the sentinel.
Unset(field) == is_none(field) \/ unwrap(field) = DEFAULT_NOT_SET

\* The file exists and parses, and one of the three identifiers is unset:
\* the [cloudflare] section is missing or one of its fields is unset.
IdentifierUnset ==
    /\ config_file.exists
    /\ config_file.parsed # None
    /\ LET cloudflare == unwrap(config_file.parsed).cloudflare IN
       \/ is_none(cloudflare)
       \/ Unset(unwrap(cloudflare).zone_id)
       \/ Unset(unwrap(cloudflare).api_token)
       \/ Unset(unwrap(cloudflare).dns_record_id)

\* The calls of the latest iteration that went to the provider.
ProviderCalls == StepsOf(steps, "get_record") \cup StepsOf(steps, "update")

\* C11: when the configuration file exists and its zone id, API token or
\* record id is missing or is the sentinel, whatever else the file has, the
\* process exits with status 0 before the loop and sends nothing; and no call
\* is ever sent whose URL or bearer token holds the sentinel.
C11_StartupGating ==
    /\ IdentifierUnset => (pc = "exited" /\ steps = <<>>)
    /\ \A i \in ProviderCalls :
          /\ steps[i].url
               # dns_record_url(DEFAULT_NOT_SET, cloudflare_dns_record_id)
          /\ steps[i].url # dns_record_url(cloudflare_zone_id, DEFAULT_NOT_SET)
          /\ steps[i].url # dns_record_url(DEFAULT_NOT_SET, DEFAULT_NOT_SET)
          /\ steps[i].bearer_auth # Some(DEFAULT_NOT_SET)

\* The file has a [cloudflare] section with a zone id and a token and no
\* record id, and the process has exited.
C11_Witness ==
    /\ pc = "exited"
    /\ config_file.parsed # None
    /\ unwrap(config_file.parsed).cloudflare # None
    /\ LET cloudflare == unwrap(unwrap(config_file.parsed).cloudflare) IN
       /\ cloudflare.zone_id = Some("zone")
       /\ cloudflare.api_token = Some("token")
       /\ cloudflare.dns_record_id = None

\* C18: when the load returns, the configuration holds a wait duration, a
\* zone id, a token and a record id, whatever sections and fields the file
\* has, and main unwraps them without a panic.
C18_FullyPopulated ==
    LET loaded == Config_load(config_file) IN
    loaded.outcome = "loaded" =>
        /\ LET c == unwrap(loaded.config) IN
           /\ ~is_none(c.general)
           /\ ~is_none(unwrap(c.general).wait_duration)
           /\ ~is_none(c.cloudflare)
           /\ ~is_none(unwrap(c.cloudflare).zone_id)
           /\ ~is_none(unwrap(c.cloudflare).api_token)
           /\ ~is_none(unwrap(c.cloudflare).dns_record_id)
        /\ pc # "panicked"

====
